---- MODULE Spec2Model ----
(***************************************************************************)
(* Client of the multiplayer quiz (src/frontend/app.js): the `state`       *)
(* object, the WebSocket connections it creates, the setInterval question  *)
(* countdown, the setTimeout retry loop of send(), and the DOM properties  *)
(* the handlers write and later read (disabled flags, active screen,       *)
(* answer feedback).  One action per event handler; a handler that throws  *)
(* keeps the assignments made before the throw.                            *)
(***************************************************************************)
EXTENDS Integers, Sequences, FiniteSets, TLC

\* ---------------------------------------------------------------- bounds
MaxConns == 2
MaxCmds == 2
MaxDur == 2
MaxTimerIds == 2

\* ------------------------------------------------------------ vocabulary
\* the ids the handshake assigns to this client; "p2" is another player of a snapshot
PlayerIds == {"p1"}

NoPlayer == "null"

NullRoom == [kind |-> "null", pin |-> "", players |-> <<>>, started |-> FALSE, count |-> 0]

UndefinedRoom == [kind |-> "undefined", pin |-> "", players |-> <<>>, started |-> FALSE, count |-> 0]

\* room_state payload {} : an object with no pin, players, started or count
BareRoom == [kind |-> "room", pin |-> "", players |-> <<>>, started |-> FALSE, count |-> 0]

PlayerLists ==
    { << [id |-> "p1", isHost |-> TRUE] >>,
      << [id |-> "p2", isHost |-> TRUE], [id |-> "p1", isHost |-> FALSE] >> }

Snapshots ==
    { [kind |-> "room", pin |-> "4821", players |-> ps, started |-> s, count |-> Len(ps)] :
        ps \in PlayerLists, s \in BOOLEAN }

NullQuestion == [kind |-> "null", options |-> -1, duration |-> [t |-> "undef", v |-> 0]]

UndefinedQuestion == [kind |-> "undefined", options |-> -1, duration |-> [t |-> "undef", v |-> 0]]

Num(n) == [t |-> "num", v |-> n]

Undef == [t |-> "undef", v |-> 0]

NaN == [t |-> "nan", v |-> 0]

OptionCounts == {2}

WellFormedQuestions ==
    { [kind |-> "q", options |-> n, duration |-> Num(d)] : n \in OptionCounts, d \in 1..MaxDur }

\* options = -1 : the payload has no options field; duration Undef : no duration field
QuestionPayloads ==
    WellFormedQuestions
      \cup { [kind |-> "q", options |-> -1, duration |-> Num(1)] }
      \cup { [kind |-> "q", options |-> n, duration |-> Undef] : n \in OptionCounts }

TimerIds == 1..MaxTimerIds

TimeoutText == "Tempo esgotado."

AnswerResults ==
    { [correct |-> TRUE, gained |-> 100, correctIndex |-> 0],
      [correct |-> FALSE, gained |-> 0, correctIndex |-> 1] }

VARIABLES
    ws,            \* state.ws: index into conns, 0 = null
    conns,         \* readyState of every WebSocket constructed so far
    wsStatus,      \* text of #ws-status
    playerId,      \* state.playerId
    room,          \* state.room
    isHost,        \* state.isHost
    question,      \* state.question
    timer,         \* state.timer: interval id, 0 = null
    timeLeft,      \* state.timeLeft
    answered,      \* state.answered
    intervals,     \* ids of the setInterval timers not yet cleared
    retries,       \* send() calls waiting in setTimeout, in firing order
    wire,          \* frames written with state.ws.send, in order
    screen,        \* the .screen element carrying class "active"
    feedback,      \* text of #answer-feedback
    optionBtns,    \* disabled flag of every button in #q-options
    startDisabled, \* #btn-start-game.disabled
    leaveDisabled, \* #btn-leave-room.disabled
    issued,        \* history: number of commands handed to send() by the UI
    retriedWrite,  \* history: a retry of send() has written its command
    answersIssued, \* history: answer commands issued since the last question frame
    locked,        \* history: the active question was locked (click, expiry, answer_result)
    superseded     \* history: renderQuestion cleared a running interval, no tick since

vars == << ws, conns, wsStatus, playerId, room, isHost, question, timer, timeLeft,
           answered, intervals, retries, wire, screen, feedback, optionBtns,
           startDisabled, leaveDisabled, issued, retriedWrite, answersIssued, locked,
           superseded >>

transportVars == << ws, conns, wsStatus, retries, wire, issued, retriedWrite >>

sessionVars == << playerId, room, isHost, question, timer, timeLeft, answered >>

timerVars == << intervals, superseded >>

domVars == << screen, feedback, optionBtns, startDisabled, leaveDisabled >>

histVars == << answersIssued, locked >>

\* ------------------------------------------------------------- transport
Conn(w, c, s) == [ws |-> w, conns |-> c, wsStatus |-> s]

CurConn == Conn(ws, conns, wsStatus)

IsOpen(k) == k.ws # 0 /\ k.conns[k.ws] = "OPEN"

wsAliveOpenOnly(k) == k.ws # 0 /\ k.conns[k.ws] = "OPEN"

\* the guard of connectWS
wsAlive(k) == k.ws # 0 /\ k.conns[k.ws] \in {"OPEN", "CONNECTING"}

connectWS(k) ==
    IF wsAlive(k)
      THEN k
      ELSE Conn(Len(k.conns) + 1, Append(k.conns, "CONNECTING"), "Conectando...")

\* a call of connectWS in the current state stays within MaxConns
CanConnect == Len(connectWS(CurConn).conns) <= MaxConns

Cmd(a, idx, n) == [action |-> a, optionIndex |-> idx, id |-> n]

sendDropping(k, rq, wq, cmd) ==
    LET k2 == connectWS(k) IN
    IF ~IsOpen(k2)
      THEN [conn |-> k2, retries |-> rq, wire |-> wq]
      ELSE [conn |-> k2, retries |-> rq, wire |-> Append(wq, cmd)]

\* send(action, payload): the connection, the retry queue and the wire after the call
send(k, rq, wq, cmd) ==
    LET k2 == connectWS(k) IN
    IF ~IsOpen(k2)
      THEN [conn |-> k2, retries |-> Append(rq, cmd), wire |-> wq]
      ELSE [conn |-> k2, retries |-> rq, wire |-> Append(wq, cmd)]

\* a UI handler calls send(a, payload)
Issue(a, idx) ==
    /\ issued < MaxCmds
    /\ CanConnect
    /\ LET r == send(CurConn, retries, wire, Cmd(a, idx, issued + 1)) IN
        /\ ws' = r.conn.ws
        /\ conns' = r.conn.conns
        /\ wsStatus' = r.conn.wsStatus
        /\ retries' = r.retries
        /\ wire' = r.wire
    /\ issued' = issued + 1
    /\ UNCHANGED retriedWrite

\* the setTimeout callback of send fires: () => send(action, payload)
RetryFire ==
    /\ retries # <<>>
    /\ CanConnect
    /\ LET r == send(CurConn, Tail(retries), wire, Head(retries)) IN
        /\ ws' = r.conn.ws
        /\ conns' = r.conn.conns
        /\ wsStatus' = r.conn.wsStatus
        /\ retries' = r.retries
        /\ wire' = r.wire
        /\ retriedWrite' = (retriedWrite \/ r.wire # wire)
    /\ UNCHANGED << issued, sessionVars, timerVars, domVars, histVars >>

\* the connection is established: readyState OPEN, ws.onopen
NetOpen(i) ==
    /\ conns[i] = "CONNECTING"
    /\ conns' = [conns EXCEPT ![i] = "OPEN"]
    /\ wsStatus' = "Conectado"
    /\ UNCHANGED << ws, retries, wire, issued, retriedWrite, sessionVars, timerVars, domVars, histVars >>

\* the closing handshake starts: readyState CLOSING, no callback
NetClosing(i) ==
    /\ conns[i] = "OPEN"
    /\ conns' = [conns EXCEPT ![i] = "CLOSING"]
    /\ UNCHANGED << ws, wsStatus, retries, wire, issued, retriedWrite, sessionVars, timerVars, domVars, histVars >>

onerror(status) == "Erro"

onclose(status) == "Desconectado"

\* the connection is closed: readyState CLOSED, then ws.onerror if it failed, then
\* ws.onclose, all in one task of the event loop
NetClose(i) ==
    /\ conns[i] \in {"CONNECTING", "OPEN", "CLOSING"}
    /\ conns' = [conns EXCEPT ![i] = "CLOSED"]
    /\ \E failed \in BOOLEAN :
         wsStatus' = onclose(IF failed THEN onerror(wsStatus) ELSE wsStatus)
    /\ UNCHANGED << ws, retries, wire, issued, retriedWrite, sessionVars, timerVars, domVars, histVars >>

\* ------------------------------------------------------------- rendering
\* line 158: qs("btn-start-game").disabled
startGameDisabled(h, r) == ~(h /\ ~r.started)

\* line 159: qs("btn-leave-room").disabled
leaveRoomDisabled(r) == r.pin = ""

\* renderRoomState(room) with state.isHost = h: the two disabled flags afterwards
renderRoomState(r, h) ==
    IF r.kind # "room"
      THEN << startDisabled, leaveDisabled >>
      ELSE << startGameDisabled(h, r), leaveRoomDisabled(r) >>

\* line 83: !!state.room.players?.find(p => p.id === state.playerId)?.isHost
localIsHost(r, pid) ==
    \E i \in DOMAIN r.players : r.players[i].id = pid /\ r.players[i].isHost
         /\ \A j \in 1..(i - 1) : r.players[j].id # pid

resetRoom ==
    /\ room' = NullRoom
    /\ isHost' = FALSE
    /\ startDisabled' = TRUE
    /\ leaveDisabled' = TRUE

lockOptionsNoop(btns) == btns

lockOptions(btns) == [i \in DOMAIN btns |-> TRUE]

\* buildOptions(options) for an array of n texts: n enabled buttons
buildOptions(n) == [i \in 1..n |-> FALSE]

\* ------------------------------------------------------- inbound frames
\* a message event is delivered by an open connection
Receiving == \E i \in DOMAIN conns : conns[i] = "OPEN"

\* JSON.parse throws, or msg.type matches no branch
OnUnrecognized ==
    /\ Receiving
    /\ UNCHANGED vars

RoomJoinedPayloads ==
    { [playerId |-> p, room |-> r] :
        p \in PlayerIds \cup {NoPlayer}, r \in Snapshots \cup {UndefinedRoom} }

OnRoomJoined(p) ==
    /\ Receiving
    /\ IF p.playerId # NoPlayer
         THEN /\ playerId' = p.playerId
              /\ UNCHANGED << room, screen, startDisabled, leaveDisabled >>
         ELSE IF p.room.kind = "room"
           THEN /\ room' = p.room
                /\ startDisabled' = renderRoomState(p.room, isHost)[1]
                /\ leaveDisabled' = renderRoomState(p.room, isHost)[2]
                /\ screen' = "screen-lobby"
                /\ UNCHANGED playerId
           ELSE UNCHANGED << playerId, room, screen, startDisabled, leaveDisabled >>
    /\ UNCHANGED << isHost, question, timer, timeLeft, answered, feedback, optionBtns >>
    /\ UNCHANGED << transportVars, timerVars, histVars >>

\* present = FALSE: the frame has no payload and msg.payload.room throws
RoomCreatedPayloads ==
    { [present |-> b, room |-> r] : b \in BOOLEAN, r \in Snapshots \cup {UndefinedRoom} }

hostAfterCreatedKept(h) == h

\* line 63
hostAfterCreated(h) == TRUE

OnRoomCreated(p) ==
    /\ Receiving
    /\ IF ~p.present
         THEN UNCHANGED << room, isHost, screen, startDisabled, leaveDisabled >>
         ELSE /\ room' = p.room
              /\ isHost' = hostAfterCreated(isHost)
              /\ startDisabled' = renderRoomState(p.room, isHost')[1]
              /\ leaveDisabled' = renderRoomState(p.room, isHost')[2]
              /\ screen' = "screen-lobby"
    /\ UNCHANGED << playerId, question, timer, timeLeft, answered, feedback, optionBtns >>
    /\ UNCHANGED << transportVars, timerVars, histVars >>

LeftMarker == [kind |-> "left", pin |-> "", players |-> <<>>, started |-> FALSE, count |-> 0]

RoomStatePayloads == Snapshots \cup {BareRoom, UndefinedRoom, LeftMarker}

OnRoomState(p) ==
    /\ Receiving
    /\ IF p.kind = "left"
         THEN resetRoom
         ELSE IF p.kind = "undefined"
           THEN \* state.room = undefined, then state.room.players throws
                /\ room' = UndefinedRoom
                /\ UNCHANGED << isHost, startDisabled, leaveDisabled >>
           ELSE /\ room' = p
                /\ isHost' = localIsHost(p, playerId)
                /\ startDisabled' = renderRoomState(p, isHost')[1]
                /\ leaveDisabled' = renderRoomState(p, isHost')[2]
    /\ UNCHANGED << playerId, question, timer, timeLeft, answered, screen, feedback, optionBtns >>
    /\ UNCHANGED << transportVars, timerVars, histVars >>

OnGameStartedMarking ==
    /\ Receiving
    /\ screen' = "screen-game"
    /\ room' = IF room.kind = "room" THEN [room EXCEPT !.started = TRUE] ELSE room
    /\ UNCHANGED << playerId, isHost, question, timer, timeLeft, answered >>
    /\ UNCHANGED << transportVars, timerVars, histVars >>
    /\ UNCHANGED << feedback, optionBtns, startDisabled, leaveDisabled >>

OnGameStarted ==
    /\ Receiving
    /\ screen' = "screen-game"
    /\ UNCHANGED << sessionVars, transportVars, timerVars, histVars >>
    /\ UNCHANGED << feedback, optionBtns, startDisabled, leaveDisabled >>

\* error writes #join-error, scoreboard rewrites #score-list, round_ended returns:
\* none of them writes a field of state or a DOM property a handler reads
OnError ==
    /\ Receiving
    /\ UNCHANGED vars

OnScoreboard ==
    /\ Receiving
    /\ UNCHANGED vars

OnRoundEnded ==
    /\ Receiving
    /\ UNCHANGED vars

\* ------------------------------------------------------ question timer
\* line 228: if (state.timer) clearInterval(state.timer)
cancelPreviousSkipped(ints, t) == ints

cancelPrevious(ints, t) == IF t # 0 THEN ints \ {t} ELSE ints

\* setInterval returns an id no live interval carries; state.timer, the only holder
\* of an id, is overwritten with it in the same step, so the least free id stands for it
FreeTimerIds(ints) == TimerIds \ ints

freshTimer(ints) ==
    CHOOSE id \in FreeTimerIds(ints) : \A j \in FreeTimerIds(ints) : id <= j

increment(tl) == IF tl.t = "num" THEN Num(tl.v + 1) ELSE NaN

\* line 230: state.timeLeft -= 1
decrement(tl) == IF tl.t = "num" THEN Num(tl.v - 1) ELSE NaN

expiredBelowZero(tl) == tl.t = "num" /\ tl.v < 0

\* line 232: state.timeLeft <= 0
expired(tl) == tl.t = "num" /\ tl.v <= 0

\* payload absent: renderQuestion(undefined) throws at q.difficulty
\* options absent: buildOptions(undefined) empties #q-options, then throws at forEach
OnQuestion(p) ==
    /\ Receiving
    /\ question' = p
    /\ answered' = FALSE
    /\ answersIssued' = 0
    /\ locked' = FALSE
    /\ IF p.kind = "undefined"
         THEN UNCHANGED << feedback, optionBtns, timeLeft, timer, intervals, superseded >>
         ELSE IF p.options = -1
           THEN /\ feedback' = ""
                /\ optionBtns' = << >>
                /\ UNCHANGED << timeLeft, timer, intervals, superseded >>
           ELSE /\ FreeTimerIds(cancelPrevious(intervals, timer)) # {}
                /\ feedback' = ""
                /\ optionBtns' = buildOptions(p.options)
                /\ timeLeft' = p.duration
                /\ LET kept == cancelPrevious(intervals, timer)
                       id == freshTimer(kept) IN
                     /\ intervals' = kept \cup {id}
                     /\ timer' = id
                /\ superseded' = (timer \in intervals)
    /\ UNCHANGED << playerId, room, isHost, screen, startDisabled, leaveDisabled >>
    /\ UNCHANGED transportVars

\* line 109
feedbackOf(r) ==
    IF r.correct
      THEN "Correto! +100 pontos."
      ELSE IF r.correctIndex = 0 THEN "Errado. Resposta correta: A."
                                 ELSE "Errado. Resposta correta: B."

OnAnswerResultIfUnlocked(r) ==
    /\ Receiving
    /\ IF locked
         THEN UNCHANGED << feedback, optionBtns, locked >>
         ELSE /\ feedback' = feedbackOf(r)
              /\ optionBtns' = lockOptions(optionBtns)
              /\ locked' = TRUE
    /\ UNCHANGED << sessionVars, transportVars, timerVars >>
    /\ UNCHANGED << screen, startDisabled, leaveDisabled, answersIssued >>

OnAnswerResult(r) ==
    /\ Receiving
    /\ feedback' = feedbackOf(r)
    /\ optionBtns' = lockOptions(optionBtns)
    /\ locked' = TRUE
    /\ UNCHANGED << sessionVars, transportVars, timerVars >>
    /\ UNCHANGED << screen, startDisabled, leaveDisabled, answersIssued >>

\* answer_result without payload: msg.payload.correct throws
OnAnswerResultNoPayload ==
    /\ Receiving
    /\ UNCHANGED vars

feedbackAtZeroTimeout(ans, fb) == TimeoutText

\* line 235: feedback text written when the countdown reaches zero
feedbackAtZero(ans, fb) == IF ans THEN fb ELSE TimeoutText

\* the callback of the interval id fires
Tick(id) ==
    /\ id \in intervals
    /\ timeLeft' = decrement(timeLeft)
    /\ IF expired(timeLeft')
         THEN /\ intervals' = intervals \ {timer}
              /\ optionBtns' = lockOptions(optionBtns)
              /\ feedback' = feedbackAtZero(answered, feedback)
              /\ locked' = TRUE
         ELSE UNCHANGED << intervals, optionBtns, feedback, locked >>
    /\ superseded' = FALSE
    /\ UNCHANGED << playerId, room, isHost, question, timer, answered >>
    /\ UNCHANGED << transportVars, answersIssued >>
    /\ UNCHANGED << screen, startDisabled, leaveDisabled >>

\* ------------------------------------------------------------- UI events
\* btn.onclick of option idx (0-based); a disabled button dispatches no click
ClickOption(idx) ==
    /\ idx + 1 \in DOMAIN optionBtns
    /\ ~optionBtns[idx + 1]
    /\ IF answered
         THEN UNCHANGED vars
         ELSE /\ answered' = TRUE
              /\ Issue("answer", idx)
              /\ optionBtns' = lockOptions(optionBtns)
              /\ answersIssued' = answersIssued + 1
              /\ locked' = TRUE
              /\ UNCHANGED << playerId, room, isHost, question, timer, timeLeft >>
              /\ UNCHANGED << timerVars, screen, feedback, startDisabled, leaveDisabled >>

ClickGoLobby ==
    /\ CanConnect
    /\ screen' = "screen-lobby"
    /\ LET k == connectWS(CurConn) IN
        /\ ws' = k.ws
        /\ conns' = k.conns
        /\ wsStatus' = k.wsStatus
    /\ UNCHANGED << retries, wire, issued, retriedWrite, sessionVars, timerVars, histVars >>
    /\ UNCHANGED << feedback, optionBtns, startDisabled, leaveDisabled >>

ClickCreateRoom ==
    /\ Issue("create_room", -1)
    /\ UNCHANGED << sessionVars, timerVars, domVars, histVars >>

ClickJoinRoom ==
    /\ Issue("join_room", -1)
    /\ UNCHANGED << sessionVars, timerVars, domVars, histVars >>

ClickStartGame ==
    /\ ~startDisabled
    /\ Issue("start_game", -1)
    /\ UNCHANGED << sessionVars, timerVars, domVars, histVars >>

ClickLeaveRoom ==
    /\ ~leaveDisabled
    /\ Issue("leave_room", -1)
    /\ resetRoom
    /\ UNCHANGED << playerId, question, timer, timeLeft, answered >>
    /\ UNCHANGED << timerVars, histVars, screen, feedback, optionBtns >>

ClickGoFinish ==
    /\ screen' = "screen-finish"
    /\ UNCHANGED << sessionVars, transportVars, timerVars, histVars >>
    /\ UNCHANGED << feedback, optionBtns, startDisabled, leaveDisabled >>

ClickRestart ==
    /\ resetRoom
    /\ screen' = "screen-home"
    /\ UNCHANGED << playerId, question, timer, timeLeft, answered >>
    /\ UNCHANGED << transportVars, timerVars, histVars, feedback, optionBtns >>

\* ------------------------------------------------------- specification
\* the state object as declared, after the connectWS() call that ends the script
Init ==
    /\ ws = 1
    /\ conns = << "CONNECTING" >>
    /\ wsStatus = "Conectando..."
    /\ playerId = NoPlayer
    /\ room = NullRoom
    /\ isHost = FALSE
    /\ question = NullQuestion
    /\ timer = 0
    /\ timeLeft = Num(0)
    /\ answered = FALSE
    /\ intervals = {}
    /\ retries = << >>
    /\ wire = << >>
    /\ screen = "screen-home"
    /\ feedback = ""
    /\ optionBtns = << >>
    /\ startDisabled = TRUE
    /\ leaveDisabled = TRUE
    /\ issued = 0
    /\ retriedWrite = FALSE
    /\ answersIssued = 0
    /\ locked = FALSE
    /\ superseded = FALSE

Next ==
    \/ \E i \in DOMAIN conns : NetOpen(i)
    \/ \E i \in DOMAIN conns : NetClosing(i)
    \/ \E i \in DOMAIN conns : NetClose(i)
    \/ RetryFire
    \/ OnUnrecognized
    \/ \E p \in RoomJoinedPayloads : OnRoomJoined(p)
    \/ \E p \in RoomCreatedPayloads : OnRoomCreated(p)
    \/ \E p \in RoomStatePayloads : OnRoomState(p)
    \/ OnGameStarted
    \/ OnError
    \/ \E p \in QuestionPayloads \cup {UndefinedQuestion} : OnQuestion(p)
    \/ \E r \in AnswerResults : OnAnswerResult(r)
    \/ OnAnswerResultNoPayload
    \/ OnScoreboard
    \/ OnRoundEnded
    \/ \E id \in TimerIds : Tick(id)
    \/ \E i \in DOMAIN optionBtns : ClickOption(i - 1)
    \/ ClickGoLobby
    \/ ClickCreateRoom
    \/ ClickJoinRoom
    \/ ClickStartGame
    \/ ClickLeaveRoom
    \/ ClickGoFinish
    \/ ClickRestart

Spec == Init /\ [][Next]_vars

\* ---------------------------------------------------------------- slices
\* Each slice keeps every action that writes the variables its claims read and
\* every action those actions' guards depend on; the actions it leaves out write
\* none of them.
NextTransport ==
    \/ \E i \in DOMAIN conns : NetOpen(i)
    \/ \E i \in DOMAIN conns : NetClosing(i)
    \/ \E i \in DOMAIN conns : NetClose(i)
    \/ RetryFire
    \/ ClickGoLobby
    \/ ClickCreateRoom
    \/ ClickJoinRoom

SpecTransport == Init /\ [][NextTransport]_vars

NextQuiz ==
    \/ \E i \in DOMAIN conns : NetOpen(i)
    \/ \E i \in DOMAIN conns : NetClosing(i)
    \/ \E i \in DOMAIN conns : NetClose(i)
    \/ RetryFire
    \/ \E p \in QuestionPayloads \cup {UndefinedQuestion} : OnQuestion(p)
    \/ \E r \in AnswerResults : OnAnswerResult(r)
    \/ OnAnswerResultNoPayload
    \/ \E id \in TimerIds : Tick(id)
    \/ \E i \in DOMAIN optionBtns : ClickOption(i - 1)
    \/ OnRoomState(LeftMarker)
    \/ ClickRestart

SpecQuiz == Init /\ [][NextQuiz]_vars

NextRoom ==
    \/ \E i \in DOMAIN conns : NetOpen(i)
    \/ \E i \in DOMAIN conns : NetClosing(i)
    \/ \E i \in DOMAIN conns : NetClose(i)
    \/ RetryFire
    \/ OnUnrecognized
    \/ \E p \in RoomJoinedPayloads : OnRoomJoined(p)
    \/ \E p \in RoomCreatedPayloads : OnRoomCreated(p)
    \/ \E p \in RoomStatePayloads : OnRoomState(p)
    \/ OnGameStarted
    \/ OnError
    \/ OnScoreboard
    \/ OnRoundEnded
    \/ ClickStartGame
    \/ ClickLeaveRoom
    \/ ClickGoFinish
    \/ ClickRestart

SpecRoom == Init /\ [][NextRoom]_vars

\* teardown while a well-formed question is active: room frames, question frames,
\* ticks, leave and restart
NextTeardown ==
    \/ \E i \in DOMAIN conns : NetOpen(i)
    \/ \E i \in DOMAIN conns : NetClosing(i)
    \/ \E i \in DOMAIN conns : NetClose(i)
    \/ RetryFire
    \/ \E p \in RoomCreatedPayloads : OnRoomCreated(p)
    \/ \E p \in RoomStatePayloads : OnRoomState(p)
    \/ \E p \in WellFormedQuestions : OnQuestion(p)
    \/ \E id \in TimerIds : Tick(id)
    \/ ClickLeaveRoom
    \/ ClickRestart

SpecTeardown == Init /\ [][NextTeardown]_vars

\* everything that reaches the client from outside: connection events and every
\* inbound frame (go-lobby only reconnects after a close)
NextInbound ==
    \/ \E i \in DOMAIN conns : NetOpen(i)
    \/ \E i \in DOMAIN conns : NetClosing(i)
    \/ \E i \in DOMAIN conns : NetClose(i)
    \/ ClickGoLobby
    \/ OnUnrecognized
    \/ \E p \in RoomJoinedPayloads : OnRoomJoined(p)
    \/ \E p \in RoomCreatedPayloads : OnRoomCreated(p)
    \/ \E p \in RoomStatePayloads : OnRoomState(p)
    \/ OnGameStarted
    \/ OnError
    \/ \E p \in QuestionPayloads \cup {UndefinedQuestion} : OnQuestion(p)
    \/ \E r \in AnswerResults : OnAnswerResult(r)
    \/ OnAnswerResultNoPayload
    \/ OnScoreboard
    \/ OnRoundEnded

SpecInbound == Init /\ [][NextInbound]_vars

\* answering well-formed questions over a connection that may close and be
\* replaced: question frames, ticks, option clicks and the retries of send
NextAnswer ==
    \/ \E i \in DOMAIN conns : NetOpen(i)
    \/ \E i \in DOMAIN conns : NetClosing(i)
    \/ \E i \in DOMAIN conns : NetClose(i)
    \/ RetryFire
    \/ \E p \in WellFormedQuestions : OnQuestion(p)
    \/ \E id \in TimerIds : Tick(id)
    \/ \E i \in DOMAIN optionBtns : ClickOption(i - 1)

SpecAnswer == Init /\ [][NextAnswer]_vars

\* setTimeout callbacks are always run: a waiting retry of send() eventually fires
LiveTransport == SpecTransport /\ WF_vars(RetryFire)

\* ---------------------------------------------------------------- claims
AllLocked == \A i \in DOMAIN optionBtns : optionBtns[i]

\* C1: in every reachable state at most one countdown interval is active, and it is
\* the one state.timer holds: a question frame clears the running interval before
\* it starts the next.
C1_AtMostOneTimer == Cardinality(intervals) <= 1 /\ intervals \subseteq {timer}

C1_Witness == superseded /\ intervals = {timer} /\ timeLeft = Num(MaxDur)

\* C2: at most one answer command is issued per question frame, and once the active
\* question is locked (own click, countdown at zero, answer_result) no step issues
\* an answer command until a question frame arrives.
C2_AnswerOnce ==
    [][ /\ answersIssued' <= 1
        /\ locked => answersIssued' <= answersIssued ]_vars

C2_Witness == locked /\ answersIssued = 1 /\ AllLocked /\ optionBtns # << >> /\ answered

\* C3: handling room_state with the left marker ends with room == null,
\* isHost == false and no active countdown interval.
C3_LeftTearsDown ==
    [][ OnRoomState(LeftMarker) => (room' = NullRoom /\ ~isHost' /\ intervals' = {}) ]_vars

\* C4: no step creates a connection or replaces state.ws while the current
\* connection is open or connecting, and every other connection is closing or closed.
C4_ConnectIdempotent ==
    [][ /\ (ws # 0 /\ conns[ws] \in {"OPEN", "CONNECTING"}) => (Len(conns') = Len(conns) /\ ws' = ws)
        /\ \A i \in DOMAIN conns' : i # ws' => conns'[i] \in {"CLOSING", "CLOSED"}
        /\ Len(conns') <= Len(conns) + 1 ]_vars

C4_Witness ==
    /\ Len(conns) = 2
    /\ conns[1] = "CLOSED"
    /\ conns[2] = "CONNECTING"
    /\ Len(retries) = 2

MalformedFrame ==
    \/ OnUnrecognized
    \/ \E p \in RoomCreatedPayloads : (~p.present \/ p.room.kind # "room") /\ OnRoomCreated(p)
    \/ OnRoomJoined([playerId |-> NoPlayer, room |-> UndefinedRoom])
    \/ OnRoomState(UndefinedRoom)
    \/ \E p \in (QuestionPayloads \ WellFormedQuestions) \cup {UndefinedQuestion} : OnQuestion(p)
    \/ OnAnswerResultNoPayload

\* C5: an unknown or malformed inbound frame leaves playerId, room, isHost,
\* question, answered, timeLeft and timer unchanged.
C5_MalformedDropped ==
    [][ MalformedFrame => UNCHANGED << playerId, room, isHost, question, answered, timeLeft, timer >> ]_vars

\* C6: a question frame with duration d >= 1 starts the countdown at d with one
\* interval; while that question is the last question frame every tick lowers
\* timeLeft by exactly one; the tick that reaches 0 clears the interval, leaves every
\* option disabled and shows the timeout text iff no answer was issued for the question.
C6_Countdown ==
    [][ /\ \A p \in WellFormedQuestions :
             OnQuestion(p) => (timeLeft' = p.duration /\ intervals' = {timer'} /\ ~locked')
        /\ (question \in WellFormedQuestions /\ \E id \in TimerIds : Tick(id)) =>
             /\ timeLeft.t = "num" /\ timeLeft.v >= 1
             /\ timeLeft' = Num(timeLeft.v - 1)
             /\ timeLeft'.v = 0 =>
                  /\ intervals' = {}
                  /\ \A i \in DOMAIN optionBtns' : optionBtns'[i]
                  /\ (feedback' = TimeoutText) <=> (answersIssued = 0)
             /\ timeLeft'.v > 0 => (intervals' = intervals /\ feedback' = feedback) ]_vars

C6_Witness ==
    /\ question \in WellFormedQuestions
    /\ question.duration = Num(MaxDur)
    /\ timeLeft = Num(0)
    /\ intervals = {}
    /\ AllLocked /\ optionBtns # << >>
    /\ feedback = TimeoutText
    /\ answersIssued = 0

\* C7: handling room_created with a room snapshot that has a pin and is not
\* started yields room equal to the snapshot, isHost true, the lobby screen
\* active and the start-game control enabled, from any prior state.
C7_RoomCreated ==
    [][ \A p \in RoomCreatedPayloads :
          (p.present /\ p.room \in Snapshots /\ ~p.room.started /\ OnRoomCreated(p)) =>
             (room' = p.room /\ isHost' /\ screen' = "screen-lobby" /\ ~startDisabled') ]_vars

C7_Witness ==
    /\ room \in Snapshots /\ ~room.started
    /\ isHost /\ playerId = NoPlayer
    /\ screen = "screen-lobby"
    /\ ~startDisabled

\* C8: the leave_room click ends with room == null, isHost == false, no active
\* question (state.question null or undefined) and no countdown interval, and hands
\* exactly one leave_room command to send.
C8_LeaveTearsDown ==
    [][ ClickLeaveRoom =>
          /\ room' = NullRoom /\ ~isHost'
          /\ question'.kind # "q" /\ intervals' = {}
          /\ Len(retries') + Len(wire') = Len(retries) + Len(wire) + 1 ]_vars

\* C9: the start-game control is enabled only while isHost, room is a snapshot
\* that has not started, and the local player is flagged host in that snapshot.
C9_StartOnlyAsHost ==
    ~startDisabled =>
        (isHost /\ room.kind = "room" /\ ~room.started /\ localIsHost(room, playerId))

OnWire(n) == Cardinality({ i \in DOMAIN wire : wire[i].id = n })

Waiting(n) == Cardinality({ i \in DOMAIN retries : retries[i].id = n })

\* C10: every command handed to send is, at any time, either waiting in exactly one
\* retry or written exactly once; and if the connection is eventually open for
\* good, eventually no command is waiting (every one has been written).
C10_SendRetries ==
    /\ [](\A n \in 1..issued : OnWire(n) + Waiting(n) = 1)
    /\ (<>[]IsOpen(CurConn)) => <>[](retries = << >> /\ \A n \in 1..issued : OnWire(n) = 1)

C10_Witness == retriedWrite /\ retries = << >> /\ issued = MaxCmds /\ Len(wire) = MaxCmds

\* C11: handling an answer_result frame stops the question timer: after the handler
\* no countdown interval is running (so no later tick can change timeLeft or the
\* feedback text).
C11_ResultStopsTimer ==
    [][ (\E r \in AnswerResults : OnAnswerResult(r)) => intervals' = {} ]_vars

\* C12: in every reachable state isHost is true if and only if room is a snapshot in
\* which the player whose id equals state.playerId is flagged isHost.
C12_HostIffFlagged ==
    isHost <=> (room.kind = "room" /\ localIsHost(room, playerId))

\* C13: once the player has submitted an answer for the active question (a click
\* since the last question frame), no tick changes the feedback text, and the
\* timeout text is never shown, whatever the order of click, answer_result and
\* final tick.
C13_OwnFeedbackKept ==
    [][ /\ (answersIssued = 1 /\ \E id \in TimerIds : Tick(id)) => feedback' = feedback
        /\ answersIssued' = 1 => feedback' # TimeoutText ]_vars

C13_Witness ==
    /\ question \in WellFormedQuestions
    /\ answersIssued = 1 /\ answered
    /\ timeLeft = Num(0) /\ intervals = {}
    /\ feedback = "Correto! +100 pontos."

\* C14: a step that changes room is the handling of room_created, room_joined or
\* room_state, and room becomes the payload's room as a whole (null for the left
\* marker); handling game_started, question, answer_result, scoreboard,
\* round_ended, error, or a connection open, close or error leaves room, isHost and
\* playerId unchanged.
C14_OnlyRoomFrames ==
    [][ /\ room' # room =>
             \/ \E p \in RoomCreatedPayloads : OnRoomCreated(p) /\ room' = p.room
             \/ \E p \in RoomJoinedPayloads : OnRoomJoined(p) /\ room' = p.room
             \/ \E p \in RoomStatePayloads :
                    OnRoomState(p) /\ room' = (IF p = LeftMarker THEN NullRoom ELSE p)
        /\ ( \/ OnGameStarted
             \/ \E p \in QuestionPayloads \cup {UndefinedQuestion} : OnQuestion(p)
             \/ \E r \in AnswerResults : OnAnswerResult(r)
             \/ OnAnswerResultNoPayload
             \/ OnScoreboard
             \/ OnRoundEnded
             \/ OnError
             \/ \E i \in DOMAIN conns : NetOpen(i) \/ NetClosing(i) \/ NetClose(i) )
           => UNCHANGED << room, isHost, playerId >> ]_vars

C14_Witness ==
    /\ room \in Snapshots /\ isHost /\ playerId # NoPlayer
    /\ screen = "screen-game"
    /\ question \in WellFormedQuestions
    /\ feedback = "Errado. Resposta correta: B."
    /\ conns[ws] = "CLOSED"

\* C15: in a state where the countdown of a well-formed question has reached zero
\* with no submission (timeout text shown, options locked, no interval left), an
\* arriving answer_result frame is applied: the handler ends with the result's
\* feedback text in place of the timeout text and with every option still locked.
C15_LateResultApplied ==
    ( /\ Receiving
      /\ question \in WellFormedQuestions
      /\ answersIssued = 0 /\ intervals = {}
      /\ feedback = TimeoutText /\ AllLocked )
    => \A r \in AnswerResults :
         ENABLED ( /\ OnAnswerResult(r)
                   /\ feedback' = feedbackOf(r) /\ feedback' # TimeoutText
                   /\ AllLocked' /\ locked' /\ intervals' = {} )

C15_Witness ==
    /\ question \in WellFormedQuestions
    /\ answersIssued = 0 /\ ~answered
    /\ timeLeft = Num(0) /\ intervals = {}
    /\ feedback = "Correto! +100 pontos."
    /\ optionBtns # << >> /\ AllLocked

QuestionFrame == \E p \in QuestionPayloads \cup {UndefinedQuestion} : OnQuestion(p)

\* C16: a step that is not the handling of a question frame leaves timeLeft
\* unchanged or lowers it; a step that raises timeLeft is the handling of a
\* question frame and sets it to that question's duration.  (After a question
\* without duration timeLeft is undefined, then NaN: neither is a number, and
\* nothing is raised.)
C16_TimeLeftNonIncreasing ==
    [][ /\ ~QuestionFrame =>
             \/ timeLeft' = timeLeft
             \/ timeLeft.t = "num" /\ timeLeft'.t = "num" /\ timeLeft'.v < timeLeft.v
             \/ timeLeft.t # "num" /\ timeLeft'.t # "num"
        /\ (timeLeft'.t = "num" /\ (timeLeft.t = "num" => timeLeft'.v > timeLeft.v)) =>
             \E p \in QuestionPayloads : OnQuestion(p) /\ timeLeft' = p.duration ]_vars

C16_Witness ==
    /\ question \in WellFormedQuestions /\ question.duration = Num(MaxDur)
    /\ timeLeft = Num(MaxDur - 1)
    /\ intervals = {timer}
    /\ locked /\ feedback = "Correto! +100 pontos."

\* C17: handling any room_joined frame whose payload carries a room snapshot,
\* whatever else the payload carries (a playerId included) and whatever the prior
\* state, ends with room equal to that snapshot and the lobby screen active, and
\* leaves isHost unchanged.
C17_RoomJoinedReplaces ==
    [][ \A p \in RoomJoinedPayloads :
          (p.room.kind = "room" /\ OnRoomJoined(p)) =>
              (room' = p.room /\ screen' = "screen-lobby" /\ isHost' = isHost) ]_vars

\* C18: the frames on the connection are in the order in which the user issued
\* their commands (ids are handed out in issue order), for every interleaving of
\* send calls, retry timers and connection events.
C18_IssueOrder == \A i, j \in DOMAIN wire : i < j => wire[i].id < wire[j].id

\* ids of the answer commands handed to send so far (each is waiting or written)
AnswerIds ==
    { wire[i].id : i \in { j \in DOMAIN wire : wire[j].action = "answer" } }
      \cup { retries[i].id : i \in { j \in DOMAIN retries : retries[j].action = "answer" } }

LastAnswerId ==
    IF AnswerIds = {} THEN 0 ELSE CHOOSE n \in AnswerIds : \A m \in AnswerIds : m <= n

\* C19: every step that writes an answer frame to the connection writes the answer
\* clicked for the question that is active after the step: the latest answer
\* issued, with no question frame handled since its click.
C19_AnswerOnlyWhileActive ==
    [][ (Len(wire') > Len(wire) /\ wire'[Len(wire')].action = "answer") =>
            (answersIssued' = 1 /\ wire'[Len(wire')].id = LastAnswerId') ]_vars

\* the texts onopen, onclose, onerror and connectWS write for each readyState
PhaseStatus(rs) ==
    CASE rs = "CONNECTING" -> {"Conectando..."}
      [] rs = "OPEN" -> {"Conectado"}
      [] rs = "CLOSING" -> {"Conectado"}
      [] rs = "CLOSED" -> {"Desconectado", "Erro"}

\* C20: the displayed connection status always reflects the phase of state.ws, and
\* an open, close or error callback of a connection that is no longer state.ws
\* changes neither the displayed status nor a field of state.
C20_OnlyCurrentConnection ==
    /\ [](wsStatus \in PhaseStatus(conns[ws]))
    /\ [][ \A i \in DOMAIN conns :
             (i # ws /\ (NetOpen(i) \/ NetClose(i))) =>
                 UNCHANGED << wsStatus, sessionVars >> ]_vars

====
